---- MODULE Spec2Model ----
(***************************************************************************)
(* Model of app/main.py: the Slack mention handler that rebuilds a thread  *)
(* as Gemini contents, calls the model in a worker thread, renders the     *)
(* response and posts it back to the thread.                               *)
(*                                                                         *)
(* Conventions.  A Python str is a sequence of one-character strings.  A   *)
(* Python dict read with .get is a record whose key may be missing from    *)
(* its DOMAIN.  A JSON value inspected with isinstance is a record         *)
(* [t |-> "str" | "dict" | "list" | "other", v |-> ...]; a dict's v is the *)
(* sequence of its <<key, value>> items in insertion order.  A mimetype    *)
(* "a/b" is the pair <<"a", "b">> and "" is <<>>.  A Slack ts "12.05" is   *)
(* [int |-> 12, frac |-> <<0, 5>>].                                        *)
(***************************************************************************)
EXTENDS Integers, Sequences, FiniteSets, TLC

\* ------------------------------------------------------------------------
\* Bounds of the model.
\* ------------------------------------------------------------------------
\* longest raw message text enumerated for text derivation
MaxTextLen == 5
\* most messages in an enumerated thread
MaxMsgs == 3
\* most parts in an enumerated model response
MaxParts == 4
\* longest string and largest limit enumerated for _split_text
MaxSplitLen == 6
MaxSplitLimit == 4
\* requests in flight together
NumRequests == 2

\* ------------------------------------------------------------------------
\* Strings.
\* ------------------------------------------------------------------------
None == "None"
NL == "\n"

\* str.isspace of one character, as \s and str.strip() see it
IsSpace(c) == c \in {" ", NL}

RECURSIVE LStrip(_)
LStrip(s) == IF s # <<>> /\ IsSpace(Head(s)) THEN LStrip(Tail(s)) ELSE s

RECURSIVE RStrip(_)
RStrip(s) ==
    IF s # <<>> /\ IsSpace(s[Len(s)]) THEN RStrip(SubSeq(s, 1, Len(s) - 1)) ELSE s

\* str.strip()
Strip(s) == RStrip(LStrip(s))

RECURSIVE Join(_, _)
\* sep.join(strs)
Join(sep, strs) ==
    IF strs = <<>> THEN <<>>
    ELSE IF Len(strs) = 1 THEN strs[1]
    ELSE strs[1] \o sep \o Join(sep, Tail(strs))

\* the first index k >= j with s[k] = ">", or 0
FirstGt(s, j) ==
    LET hits == {k \in j..Len(s) : s[k] = ">"}
    IN IF hits = {} THEN 0 ELSE CHOOSE k \in hits : \A h \in hits : k <= h

\* the first index k >= j that holds no whitespace, Len(s) + 1 if none
SkipSpace(s, j) ==
    LET stops == {k \in j..Len(s) : ~IsSpace(s[k])}
    IN IF stops = {} THEN Len(s) + 1 ELSE CHOOSE k \in stops : \A h \in stops : k <= h

\* where a match of <@[^>]+>\s* that starts at i ends (the index after it), or 0
MentionEnd(s, i) ==
    IF i + 3 <= Len(s) /\ s[i] = "<" /\ s[i + 1] = "@" /\ s[i + 2] # ">"
    THEN LET g == FirstGt(s, i + 3) IN IF g = 0 THEN 0 ELSE SkipSpace(s, g + 1)
    ELSE 0

RECURSIVE SubMentionFrom(_, _)
SubMentionFrom(s, i) ==
    IF i > Len(s) THEN <<>>
    ELSE LET e == MentionEnd(s, i)
         IN IF e # 0 THEN SubMentionFrom(s, e) ELSE <<s[i]>> \o SubMentionFrom(s, i + 1)

\* re.sub(r"<@[^>]+>\s*", "", s)
SubMention(s) == SubMentionFrom(s, 1)

\* ------------------------------------------------------------------------
\* _extract_text
\* ------------------------------------------------------------------------
JStr(s) == [t |-> "str", v |-> s]
JDict(items) == [t |-> "dict", v |-> items]
JList(items) == [t |-> "list", v |-> items]

\* obj.get("text") when it is a str: the strings to append
OwnText(items) ==
    LET at == {k \in 1..Len(items) : items[k][1] = "text"}
    IN IF at = {} THEN <<>>
       ELSE LET v == items[CHOOSE k \in at : TRUE][2]
            IN IF v.t = "str" THEN <<v.v>> ELSE <<>>

RECURSIVE _extract_text(_), ExtractEach(_, _)
_extract_text(obj) ==
    IF obj.t = "dict"
    THEN OwnText(obj.v) \o ExtractEach([k \in 1..Len(obj.v) |-> obj.v[k][2]], 1)
    ELSE IF obj.t = "list" THEN ExtractEach(obj.v, 1)
    ELSE <<>>
\* texts.extend(_extract_text(item)) for each item from the k-th on
ExtractEach(items, k) ==
    IF k > Len(items) THEN <<>>
    ELSE _extract_text(items[k]) \o ExtractEach(items, k + 1)

\* ------------------------------------------------------------------------
\* _split_text
\* ------------------------------------------------------------------------
\* the default of the parameter limit
DefaultLimit == 3000

\* range(0, len(text), limit), as the number of its elements
RangeLen(n, step) == (n + step - 1) \div step

Min(a, b) == IF a <= b THEN a ELSE b

\* the split that keeps the full chunks only
SplitFullChunks(text, limit) ==
    IF text = <<>> THEN << <<>> >>
    ELSE [k \in 1..(Len(text) \div limit) |-> SubSeq(text, (k - 1) * limit + 1, k * limit)]
_split_text(text, limit) ==
    IF text = <<>> THEN << <<>> >>
    ELSE [k \in 1..RangeLen(Len(text), limit) |->
            SubSeq(text, (k - 1) * limit + 1, Min(k * limit, Len(text)))]

\* ------------------------------------------------------------------------
\* _build_contents_from_thread: the per-message computations
\* ------------------------------------------------------------------------
Has(d, key) == key \in DOMAIN d

\* float(m["ts"]), in hundredths
Pow10(n) == IF n = 0 THEN 1 ELSE IF n = 1 THEN 10 ELSE 100
RECURSIVE DigitsValue(_)
DigitsValue(ds) == IF ds = <<>> THEN 0 ELSE 10 * DigitsValue(SubSeq(ds, 1, Len(ds) - 1)) + ds[Len(ds)]
Float(ts) == ts.int * 100 + DigitsValue(ts.frac) * Pow10(2 - Len(ts.frac))

\* the stable insertion of index k into order, which is sorted by key already
InsertByKey(msgs, order, k) ==
    LET p == Cardinality({q \in 1..Len(order) :
                            Float(msgs[order[q]].ts) <= Float(msgs[k].ts)})
    IN SubSeq(order, 1, p) \o <<k>> \o SubSeq(order, p + 1, Len(order))

RECURSIVE SortedUpTo(_, _)
SortedUpTo(msgs, n) ==
    IF n = 0 THEN <<>> ELSE InsertByKey(msgs, SortedUpTo(msgs, n - 1), n)

\* the iteration in fetch order, as a loop without sorted() would make it
UnsortedOrder(msgs) == [k \in 1..Len(msgs) |-> k]
\* sorted(history["messages"], key=lambda m: float(m["ts"])), as the indices
\* into the fetched list in iteration order
SortedOrder(msgs) == SortedUpTo(msgs, Len(msgs))

\* bool(msg.get("bot_id") or msg.get("subtype") == "bot_message")
is_bot(msg) ==
    \/ Has(msg, "bot_id") /\ msg.bot_id # ""
    \/ Has(msg, "subtype") /\ msg.subtype = "bot_message"

RoleOf(msg) == IF is_bot(msg) THEN "model" ELSE "user"

\* msg.get("text") or ""
RawText(msg) == IF Has(msg, "text") THEN msg.text ELSE <<>>

\* msg.get("blocks", [])
BlocksOf(msg) == IF Has(msg, "blocks") THEN msg.blocks ELSE JList(<<>>)

\* the substitution anchored at the start of the text only, as
\* re.sub(r"^<@[^>]+>\s*", "", text).strip() would make it
StripLeadingMention(s) ==
    LET e == MentionEnd(s, 1) IN Strip(IF e # 0 THEN SubSeq(s, e, Len(s)) ELSE s)
\* re.sub(r"<@[^>]+>\s*", "", text).strip()
StripMentions(s) == Strip(SubMention(s))

\* lines 59-62: the text of a message
DerivedText(msg) ==
    LET text == StripMentions(RawText(msg))
    IN IF text = <<>> THEN Strip(Join(<<NL>>, _extract_text(BlocksOf(msg)))) ELSE text

\* msg.get("files", [])
FilesOf(msg) == IF Has(msg, "files") THEN msg.files ELSE <<>>

\* f.get("mimetype") or ""
MimeOf(f) == IF Has(f, "mimetype") THEN f.mimetype ELSE <<>>

\* f.get("url_private_download") is truthy
HasUrl(f) == Has(f, "url_private_download") /\ f.url_private_download # ""

\* mimetype.startswith(("image/", "video/", "audio/", "text/")) or mimetype == "application/pdf"
supported(mimetype) ==
    \/ Len(mimetype) = 2 /\ mimetype[1] \in {"image", "video", "audio", "text"}
    \/ mimetype = <<"application", "pdf">>

Admitted(f) == HasUrl(f) /\ supported(MimeOf(f))

\* what the content source serves at a url: resp.text and resp.content
RespText(url) == IF url = "u_text" THEN <<"d", "o", "c">> ELSE <<>>
RespContent(url) == <<"bytes of", url>>

TextPart(s) == [kind |-> "text", text |-> s]
BytesPart(data, mime) == [kind |-> "bytes", data |-> data, mime_type |-> mime]

\* lines 86-89: the part of a fetched file
FilePart(f) ==
    IF MimeOf(f)[1] = "text" THEN TextPart(RespText(f.url_private_download))
    ELSE BytesPart(RespContent(f.url_private_download), MimeOf(f))

Content(role, parts) == [role |-> role, parts |-> parts]

NO_CONTENT == <<"(", "n", "o", " ", "c", "o", "n", "t", "e", "n", "t", ")">>
\* line 95
PlaceholderContents == <<Content("user", <<TextPart(NO_CONTENT)>>)>>

\* ------------------------------------------------------------------------
\* _format_model_response
\* ------------------------------------------------------------------------
\* getattr(part, "thought", None) is truthy
IsThought(part) == Has(part, "thought") /\ part.thought

\* part.text is truthy
HasText(part) == Has(part, "text") /\ part.text # <<>>

\* the format of the image a mime type decodes to; None when it names none
ImageFormat(mime) ==
    IF mime[2] = "png" THEN "PNG" ELSE IF mime[2] = "jpeg" THEN "JPEG" ELSE None

\* part.as_image(): <<>> for None, else <<image>>
as_image(part) ==
    IF Has(part, "inline_data") /\ Len(part.inline_data.mime_type) = 2
       /\ part.inline_data.mime_type[1] = "image"
    THEN <<[data |-> part.inline_data.data,
            format |-> ImageFormat(part.inline_data.mime_type)]>>
    ELSE <<>>

\* lines 120-122: buffer.getvalue() after image.save(buffer, format=image.format or "PNG")
SavedBytes(image) ==
    [data |-> image.data, format |-> IF image.format # None THEN image.format ELSE "PNG"]

RECURSIVE FormatLoop(_, _, _, _)
\* lines 112-122 from the k-th part on
FormatLoop(parts, k, text_parts, images) ==
    IF k > Len(parts) THEN [text_parts |-> text_parts, images |-> images]
    ELSE LET part == parts[k]
         IN IF IsThought(part) THEN FormatLoop(parts, k + 1, text_parts, images)
            ELSE IF HasText(part)
            THEN FormatLoop(parts, k + 1, Append(text_parts, part.text), images)
            ELSE LET image == as_image(part)
                 IN IF image # <<>>
                    THEN FormatLoop(parts, k + 1, text_parts,
                                    Append(images, SavedBytes(image[1])))
                    ELSE FormatLoop(parts, k + 1, text_parts, images)

RECURSIVE ConcatText(_, _)
\* response.text or "": the texts of the parts that are no thoughts, concatenated
ConcatText(parts, k) ==
    IF k > Len(parts) THEN <<>>
    ELSE (IF Has(parts[k], "text") /\ ~IsThought(parts[k]) THEN parts[k].text ELSE <<>>)
         \o ConcatText(parts, k + 1)
ResponseText(response) == ConcatText(response.parts, 1)

\* the loop that also collects the parts tagged thought
FormatKeepingThoughts(response) ==
    LET plain == [k \in 1..Len(response.parts) |->
                    [f \in DOMAIN response.parts[k] \ {"thought"} |-> response.parts[k][f]]]
        acc == FormatLoop(plain, 1, <<>>, <<>>)
    IN [text |-> IF acc.text_parts # <<>> THEN Join(<<NL, NL>>, acc.text_parts)
                 ELSE ResponseText(response),
        images |-> acc.images]
_format_model_response(response) ==
    LET acc == FormatLoop(response.parts, 1, <<>>, <<>>)
    IN [text |-> IF acc.text_parts # <<>> THEN Join(<<NL, NL>>, acc.text_parts)
                 ELSE ResponseText(response),
        images |-> acc.images]

\* image.save is reached for some part of the response
SavesImage(response) ==
    /\ Has(response, "parts")
    /\ \E k \in 1..Len(response.parts) :
         LET part == response.parts[k]
         IN ~IsThought(part) /\ ~HasText(part) /\ as_image(part) # <<>>

\* ------------------------------------------------------------------------
\* handle_mention: the values it computes
\* ------------------------------------------------------------------------
\* line 136 with event["ts"] alone
OwnTs(event) == event.ts
\* line 136: event.get("thread_ts") or event["ts"]
ThreadTs(event) ==
    IF Has(event, "thread_ts") /\ event.thread_ts # "" THEN event.thread_ts ELSE event.ts

\* lines 94-96 without the substitution
ContentsAsBuilt(contents) == contents
\* lines 94-96: what _build_contents_from_thread returns
ReturnedContents(contents) == IF contents = <<>> THEN PlaceholderContents ELSE contents

ERROR_PREFIX ==
    <<"E", "r", "r", "o", "r", " ", "f", "r", "o", "m", " ", "G", "e", "m", "i", "n", "i", ":", " ">>
RESULTS_NOTE ==
    <<"H", "e", "r", "e", " ", "a", "r", "e", " ", "y", "o", "u", "r", " ", "r", "e", "s", "u", "l", "t", "s", " ", "f", "r", "o", "m", " ", "G", "e", "m", "i", "n", "i", ".">>
NO_RESPONSE ==
    <<"(", "n", "o", " ", "r", "e", "s", "p", "o", "n", "s", "e", " ", "c", "o", "n", "t", "e", "n", "t", ")">>

\* an except branch that drops the message
SilentReply(e) == [text |-> <<>>, images |-> <<>>]
\* lines 173-174
ExceptReply(e) == [text |-> ERROR_PREFIX \o e, images |-> <<>>]

\* lines 176-177 left out
NoSubstitute(chunks, reply_images) == chunks
\* lines 176-177
Substitute(chunks, reply_images) ==
    IF \A k \in 1..Len(chunks) : chunks[k] = <<>>
    THEN (IF reply_images # <<>> THEN <<RESULTS_NOTE>> ELSE <<NO_RESPONSE>>)
    ELSE chunks

\* lines 175-178: the locals of the delivery, k and n the next chunk and image
Prepared(r, failed) ==
    [text |-> r.text, images |-> r.images, failed |-> failed,
     chunks |-> Substitute(_split_text(r.text, DefaultLimit), r.images),
     k |-> 1, n |-> 1]

\* lines 179-189: one call of say
SayCall(chunk, thread_ts) ==
    [call |-> "say", text |-> chunk, blocks |-> chunk, thread_ts |-> thread_ts]

\* lines 192-198: one call of client.files_upload_v2
UploadCall(idx, image_bytes, channel, thread_ts) ==
    [call |-> "files_upload_v2", channel |-> channel, thread_ts |-> thread_ts,
     idx |-> idx, file |-> image_bytes]

\* a call of call_gemini made on the event loop itself
DirectCall(r) == r
\* line 169: who holds the event loop while call_gemini runs under
\* asyncio.to_thread; 0 is nobody
ToThread(r) == 0

\* ------------------------------------------------------------------------
\* State
\* ------------------------------------------------------------------------
Requests == 1..NumRequests

VARIABLES
    pc,        \* where each run of handle_mention stands
    exc,       \* the exception that left handle_mention, None if none did
    event,     \* body["event"] of each request
    slack,     \* the thread conversations_replies serves for each request
    gemini,    \* what generate_content does for each request
    scope,     \* the locals channel and thread_ts
    asm,       \* the locals of _build_contents_from_thread
    contents,  \* the local contents of handle_mention
    inv,       \* the call of call_gemini: its state, its result
    reply,     \* the locals reply_text, reply_images, chunks and the loop positions
    sent,      \* the calls of say and files_upload_v2 that returned, in order
    loop,      \* the request whose blocking call holds the event loop, 0 if none
    split      \* a call of _split_text on its own: arguments and result

vars == <<pc, exc, event, slack, gemini, scope, asm, contents, inv, reply, sent, loop, split>>

NoAsm ==
    [history |-> <<>>, order |-> <<>>, i |-> 0, j |-> 0, role |-> None, text |-> <<>>,
     parts |-> <<>>, contents |-> <<>>, origin |-> <<>>]
NoInv == [state |-> "none", response |-> [parts |-> <<>>], error |-> <<>>]
NoReply ==
    [text |-> <<>>, images |-> <<>>, failed |-> FALSE, chunks |-> <<>>, k |-> 0, n |-> 0]
NoSplit == [text |-> <<>>, limit |-> DefaultLimit, chunks |-> <<>>, done |-> TRUE]

\* the message and the file the assembly loop stands at
CurMsg(r) == asm[r].history[asm[r].order[asm[r].i]]
CurFile(r) == FilesOf(CurMsg(r))[asm[r].j]

Raise(r, what) ==
    /\ pc' = [pc EXCEPT ![r] = "raised"]
    /\ exc' = [exc EXCEPT ![r] = what]

\* ------------------------------------------------------------------------
\* handle_mention, one action per stretch between two awaits
\* ------------------------------------------------------------------------
\* line 132
Ack(r) ==
    /\ pc[r] = "start" /\ loop = 0
    /\ pc' = [pc EXCEPT ![r] = "acked"]
    /\ UNCHANGED <<exc, event, slack, gemini, scope, asm, contents, inv, reply, sent, loop, split>>

\* lines 134-138, 49-54: conversations_replies returns
FetchHistory(r) ==
    /\ pc[r] = "acked" /\ loop = 0
    /\ scope' = [scope EXCEPT ![r] = [channel |-> event[r].channel,
                                      thread_ts |-> ThreadTs(event[r])]]
    /\ asm' = [asm EXCEPT ![r] = [NoAsm EXCEPT !.history = slack[r],
                                               !.order = SortedOrder(slack[r]),
                                               !.i = 1]]
    /\ pc' = [pc EXCEPT ![r] = "assembling"]
    /\ UNCHANGED <<exc, event, slack, gemini, contents, inv, reply, sent, loop, split>>

\* lines 134-138, 49: conversations_replies raises
FetchHistoryFails(r) ==
    /\ pc[r] = "acked" /\ loop = 0
    /\ scope' = [scope EXCEPT ![r] = [channel |-> event[r].channel,
                                      thread_ts |-> ThreadTs(event[r])]]
    /\ Raise(r, "conversations_replies")
    /\ UNCHANGED <<event, slack, gemini, asm, contents, inv, reply, sent, loop, split>>

\* lines 54-65: the next message, up to its text part
BeginMessage(r) ==
    /\ pc[r] = "assembling" /\ loop = 0
    /\ asm[r].i <= Len(asm[r].order) /\ asm[r].j = 0
    /\ LET text == DerivedText(CurMsg(r))
       IN asm' = [asm EXCEPT ![r].role = RoleOf(CurMsg(r)),
                             ![r].text = text,
                             ![r].parts = IF text # <<>> THEN <<TextPart(text)>> ELSE <<>>,
                             ![r].j = 1]
    /\ UNCHANGED <<pc, exc, event, slack, gemini, scope, contents, inv, reply, sent, loop, split>>

\* lines 67-78: a file without url or of an unsupported type
SkipFile(r) ==
    /\ pc[r] = "assembling" /\ loop = 0
    /\ asm[r].j >= 1 /\ asm[r].j <= Len(FilesOf(CurMsg(r)))
    /\ ~Admitted(CurFile(r))
    /\ asm' = [asm EXCEPT ![r].j = @ + 1]
    /\ UNCHANGED <<pc, exc, event, slack, gemini, scope, contents, inv, reply, sent, loop, split>>

\* lines 67-89: an admitted file, fetched
FetchFile(r) ==
    /\ pc[r] = "assembling" /\ loop = 0
    /\ asm[r].j >= 1 /\ asm[r].j <= Len(FilesOf(CurMsg(r)))
    /\ Admitted(CurFile(r))
    /\ asm' = [asm EXCEPT ![r].parts = Append(@, FilePart(CurFile(r))),
                          ![r].j = @ + 1]
    /\ UNCHANGED <<pc, exc, event, slack, gemini, scope, contents, inv, reply, sent, loop, split>>

\* lines 80-84: http_client.get raises (transport error, timeout) or
\* raise_for_status raises (a status that is no success)
FetchFileFails(r) ==
    /\ pc[r] = "assembling" /\ loop = 0
    /\ asm[r].j >= 1 /\ asm[r].j <= Len(FilesOf(CurMsg(r)))
    /\ Admitted(CurFile(r))
    /\ \E what \in {"httpx.TransportError", "httpx.HTTPStatusError"} : Raise(r, what)
    /\ UNCHANGED <<event, slack, gemini, scope, asm, contents, inv, reply, sent, loop, split>>

\* lines 91-92: the end of the loop body
EndMessage(r) ==
    /\ pc[r] = "assembling" /\ loop = 0
    /\ asm[r].i <= Len(asm[r].order)
    /\ asm[r].j > Len(FilesOf(CurMsg(r)))
    /\ asm' = [asm EXCEPT
                 ![r].contents = IF asm[r].parts # <<>>
                                 THEN Append(@, Content(asm[r].role, asm[r].parts)) ELSE @,
                 ![r].origin = IF asm[r].parts # <<>> THEN Append(@, asm[r].order[asm[r].i])
                               ELSE @,
                 ![r].i = @ + 1,
                 ![r].j = 0]
    /\ UNCHANGED <<pc, exc, event, slack, gemini, scope, contents, inv, reply, sent, loop, split>>

\* lines 94-96, 138: the assembly returns
ReturnContents(r) ==
    /\ pc[r] = "assembling" /\ loop = 0
    /\ asm[r].i > Len(asm[r].order)
    /\ contents' = [contents EXCEPT ![r] = ReturnedContents(asm[r].contents)]
    /\ pc' = [pc EXCEPT ![r] = "assembled"]
    /\ UNCHANGED <<exc, event, slack, gemini, scope, asm, inv, reply, sent, loop, split>>

\* line 169: call_gemini is handed to a worker thread and the handler waits
Dispatch(r) ==
    /\ pc[r] = "assembled" /\ loop = 0
    /\ inv' = [inv EXCEPT ![r].state = "running"]
    /\ loop' = ToThread(r)
    /\ pc' = [pc EXCEPT ![r] = "awaiting"]
    /\ UNCHANGED <<exc, event, slack, gemini, scope, asm, contents, reply, sent, split>>

\* lines 140-166 in the worker: generate_content returns
ModelReturns(r) ==
    /\ inv[r].state = "running" /\ ~gemini[r].raises
    /\ inv' = [inv EXCEPT ![r].state = "returned", ![r].response = gemini[r].response]
    /\ loop' = IF loop = r THEN 0 ELSE loop
    /\ UNCHANGED <<pc, exc, event, slack, gemini, scope, asm, contents, reply, sent, split>>

\* lines 140-166 in the worker: generate_content raises
ModelRaises(r) ==
    /\ inv[r].state = "running" /\ gemini[r].raises
    /\ inv' = [inv EXCEPT ![r].state = "raised", ![r].error = gemini[r].error]
    /\ loop' = IF loop = r THEN 0 ELSE loop
    /\ UNCHANGED <<pc, exc, event, slack, gemini, scope, asm, contents, reply, sent, split>>

\* the message of the exception a failed rendering raises
RENDER_ERROR == <<"r", "e", "n", "d", "e", "r">>

\* lines 169-178: the call returned and the response is rendered
ResumeRendered(r) ==
    /\ pc[r] = "awaiting" /\ loop = 0 /\ inv[r].state = "returned"
    /\ Has(inv[r].response, "parts")
    /\ reply' = [reply EXCEPT ![r] = Prepared(_format_model_response(inv[r].response), FALSE)]
    /\ pc' = [pc EXCEPT ![r] = "say_first"]
    /\ UNCHANGED <<exc, event, slack, gemini, scope, asm, contents, inv, sent, loop, split>>

\* lines 169-178: the call returned and _format_model_response raises, on a
\* response without parts or in image.save
ResumeRenderFails(r) ==
    /\ pc[r] = "awaiting" /\ loop = 0 /\ inv[r].state = "returned"
    /\ ~Has(inv[r].response, "parts") \/ SavesImage(inv[r].response)
    /\ reply' = [reply EXCEPT ![r] = Prepared(ExceptReply(RENDER_ERROR), TRUE)]
    /\ pc' = [pc EXCEPT ![r] = "say_first"]
    /\ UNCHANGED <<exc, event, slack, gemini, scope, asm, contents, inv, sent, loop, split>>

\* lines 169-178: the call raised
ResumeRaised(r) ==
    /\ pc[r] = "awaiting" /\ loop = 0 /\ inv[r].state = "raised"
    /\ reply' = [reply EXCEPT ![r] = Prepared(ExceptReply(inv[r].error), TRUE)]
    /\ pc' = [pc EXCEPT ![r] = "say_first"]
    /\ UNCHANGED <<exc, event, slack, gemini, scope, asm, contents, inv, sent, loop, split>>

\* where the delivery stands once chunk k - 1 and image n - 1 are out
AfterDelivery(rp) ==
    IF rp.k <= Len(rp.chunks) THEN "say_rest"
    ELSE IF rp.n <= Len(rp.images) THEN "upload"
    ELSE "done"

\* lines 179-183
SayFirst(r) ==
    /\ pc[r] = "say_first" /\ loop = 0
    /\ sent' = [sent EXCEPT ![r] = Append(@, SayCall(reply[r].chunks[1], scope[r].thread_ts))]
    /\ reply' = [reply EXCEPT ![r].k = 2]
    /\ pc' = [pc EXCEPT ![r] = AfterDelivery(reply'[r])]
    /\ UNCHANGED <<exc, event, slack, gemini, scope, asm, contents, inv, loop, split>>

\* lines 184-189
SayRest(r) ==
    /\ pc[r] = "say_rest" /\ loop = 0
    /\ sent' = [sent EXCEPT ![r] =
                  Append(@, SayCall(reply[r].chunks[reply[r].k], scope[r].thread_ts))]
    /\ reply' = [reply EXCEPT ![r].k = @ + 1]
    /\ pc' = [pc EXCEPT ![r] = AfterDelivery(reply'[r])]
    /\ UNCHANGED <<exc, event, slack, gemini, scope, asm, contents, inv, loop, split>>

\* lines 191-198
Upload(r) ==
    /\ pc[r] = "upload" /\ loop = 0
    /\ sent' = [sent EXCEPT ![r] =
                  Append(@, UploadCall(reply[r].n, reply[r].images[reply[r].n],
                                       scope[r].channel, scope[r].thread_ts))]
    /\ reply' = [reply EXCEPT ![r].n = @ + 1]
    /\ pc' = [pc EXCEPT ![r] = AfterDelivery(reply'[r])]
    /\ UNCHANGED <<exc, event, slack, gemini, scope, asm, contents, inv, loop, split>>

\* lines 179-198: say or files_upload_v2 raises
DeliveryFails(r) ==
    /\ pc[r] \in {"say_first", "say_rest", "upload"} /\ loop = 0
    /\ Raise(r, IF pc[r] = "upload" THEN "files_upload_v2" ELSE "say")
    /\ UNCHANGED <<event, slack, gemini, scope, asm, contents, inv, reply, sent, loop, split>>

\* line 99-103 called on its own
SplitCall ==
    /\ ~split.done
    /\ split' = [split EXCEPT !.chunks = _split_text(split.text, split.limit), !.done = TRUE]
    /\ UNCHANGED <<pc, exc, event, slack, gemini, scope, asm, contents, inv, reply, sent, loop>>

\* ------------------------------------------------------------------------
\* The inputs the specifications draw from
\* ------------------------------------------------------------------------
Repeat(c, n) == [k \in 1..n |-> c]

\* an event that starts a thread and one inside a thread
Events ==
    <<[channel |-> "C1", ts |-> "20.000100"],
      [channel |-> "C2", ts |-> "21.000200", thread_ts |-> "20.000100"]>>

PNG_FILE == [mimetype |-> <<"image", "png">>, url_private_download |-> "u_img"]
TEXT_FILE == [mimetype |-> <<"text", "plain">>, url_private_download |-> "u_text"]
ZIP_FILE == [mimetype |-> <<"application", "zip">>, url_private_download |-> "u_zip"]
PENDING_FILE == [mimetype |-> <<"image", "png">>]

\* the timestamps 1.05, 1.5 and 1.50
TsChoices ==
    <<[int |-> 1, frac |-> <<0, 5>>], [int |-> 1, frac |-> <<5>>], [int |-> 1, frac |-> <<5, 0>>]>>

BodyChoices ==
    <<[text |-> <<"h", "i">>],
      [bot_id |-> "B1", text |-> <<"o", "k">>, files |-> <<TEXT_FILE>>],
      [text |-> <<>>, files |-> <<ZIP_FILE, PENDING_FILE>>],
      [subtype |-> "bot_message", files |-> <<PNG_FILE>>],
      [text |-> NO_CONTENT]>>

Msg(ts, body) == [ts |-> ts] @@ body

\* every thread of at most MaxMsgs messages, each a timestamp with a body
ThreadOf(ch) == [k \in DOMAIN ch |-> Msg(TsChoices[ch[k][1]], BodyChoices[ch[k][2]])]
ThreadChoices ==
    UNION {[1..n -> (1..Len(TsChoices)) \X (1..Len(BodyChoices))] : n \in 0..MaxMsgs}

\* the rich-text blocks [{"text": "a"}, {"items": [{"text": "b"}]}] and a section block
EXAMPLE_BLOCKS ==
    JList(<<JDict(<<<<"text", JStr(<<"a">>)>>>>),
            JDict(<<<<"items", JList(<<JDict(<<<<"text", JStr(<<"b">>)>>>>)>>)>>>>)>>)
SECTION_BLOCKS ==
    JList(<<JDict(<<<<"type", JStr(<<"s">>)>>,
                    <<"text", JDict(<<<<"type", JStr(<<"m">>)>>,
                                      <<"text", JStr(<<" ", "x", " ">>)>>>>)>>>>)>>)
BlockChoices == <<JList(<<>>), EXAMPLE_BLOCKS, SECTION_BLOCKS>>

Alphabet == {"<", "@", "U", ">", " "}
EXAMPLE_TEXT == <<"<", "@", "U", "1", "2", "3", ">", " ", "h", "e", "l", "l", "o">>
LATER_TEXT == <<"h", "i", " ", "<", "@", "U", "1", "2", "3", ">", " ", "t", "h", "e", "r", "e">>
\* every raw text of at most MaxTextLen characters, and the two examples
RawTexts == UNION {[1..n -> Alphabet] : n \in 0..MaxTextLen} \cup {EXAMPLE_TEXT, LATER_TEXT}

THOUGHT_TEXT == [thought |-> TRUE, text |-> <<"t">>]
TEXT_A == [text |-> <<"a">>]
TEXT_B == [thought |-> FALSE, text |-> <<"b">>]
TEXT_EMPTY == [text |-> <<>>]
IMAGE_X == [inline_data |-> [mime_type |-> <<"image", "png">>, data |-> "X"]]
IMAGE_Y == [thought |-> FALSE, inline_data |-> [mime_type |-> <<"image", "webp">>, data |-> "Y"]]
THOUGHT_IMAGE == [thought |-> TRUE, inline_data |-> [mime_type |-> <<"image", "jpeg">>, data |-> "Z"]]
PartChoices == <<THOUGHT_TEXT, TEXT_A, TEXT_B, TEXT_EMPTY, IMAGE_X, IMAGE_Y, THOUGHT_IMAGE>>

\* every response of at most MaxParts parts
ResponseOf(ch) == [parts |-> [k \in DOMAIN ch |-> PartChoices[ch[k]]]]
ResponseChoices == UNION {[1..n -> 1..Len(PartChoices)] : n \in 0..MaxParts}

Returns(response) == [raises |-> FALSE, response |-> response, error |-> <<>>]
Raises(e) == [raises |-> TRUE, response |-> [parts |-> <<>>], error |-> e]

\* a text of two full chunks and a rest
LONG_TEXT == Repeat("x", 2 * DefaultLimit) \o <<"y">>

\* the threads and the model's answers of the handler's specifications
HandlerThreads ==
    <<<<>>,
      <<Msg(TsChoices[2], [text |-> <<"<", "@", "B", "O", "T", ">", " ", "d", "r", "a", "w", " ", "a", " ", "c", "a", "t">>])>>,
      <<Msg(TsChoices[2], [bot_id |-> "B1", text |-> <<"o", "k">>]),
        Msg(TsChoices[1], [text |-> <<"<", "@", "U", ">">>, blocks |-> EXAMPLE_BLOCKS,
                           files |-> <<ZIP_FILE, PNG_FILE, TEXT_FILE>>])>>>>
HandlerAnswers ==
    <<Returns([parts |-> <<[text |-> <<"H", "e", "r", "e", ":">>], IMAGE_X>>]),
      Returns([parts |-> <<THOUGHT_TEXT, [text |-> LONG_TEXT], IMAGE_X, TEXT_B, IMAGE_Y>>]),
      Returns([parts |-> <<THOUGHT_IMAGE, TEXT_EMPTY, IMAGE_Y>>]),
      Returns([parts |-> <<THOUGHT_TEXT>>]),
      Returns([candidates |-> <<>>]),
      Raises(<<"4", "2", "9">>),
      Raises(<<>>)>>

\* the thread and the answers of the concurrent specification
SharedThread ==
    <<Msg(TsChoices[1], [text |-> <<"h", "i">>, files |-> <<ZIP_FILE, PNG_FILE>>])>>
SharedAnswers ==
    <<Returns([parts |-> <<[text |-> Repeat("x", DefaultLimit + 1)], IMAGE_X>>]),
      Raises(<<"4", "2", "9">>)>>

\* ------------------------------------------------------------------------
\* Specifications
\* ------------------------------------------------------------------------
\* the state once the requests in active have reached handle_mention; the others
\* never arrive and stand at "absent"
Arrived(active, ev, thread, answer, call) ==
    /\ pc = [r \in Requests |-> IF r \in active THEN "start" ELSE "absent"]
    /\ exc = [r \in Requests |-> None]
    /\ event = ev
    /\ slack = thread
    /\ gemini = answer
    /\ scope = [r \in Requests |-> [channel |-> None, thread_ts |-> None]]
    /\ asm = [r \in Requests |-> NoAsm]
    /\ contents = [r \in Requests |-> <<>>]
    /\ inv = [r \in Requests |-> NoInv]
    /\ reply = [r \in Requests |-> NoReply]
    /\ sent = [r \in Requests |-> <<>>]
    /\ loop = 0
    /\ split = call

\* the steps of the assembly
Assembly(r) ==
    \/ Ack(r)
    \/ FetchHistory(r)
    \/ BeginMessage(r)
    \/ SkipFile(r)
    \/ FetchFile(r)
    \/ FetchFileFails(r)
    \/ EndMessage(r)
    \/ ReturnContents(r)

\* the steps of handle_mention on the event loop
Handler(r) ==
    \/ Ack(r)
    \/ FetchHistory(r)
    \/ FetchHistoryFails(r)
    \/ BeginMessage(r)
    \/ SkipFile(r)
    \/ FetchFile(r)
    \/ FetchFileFails(r)
    \/ EndMessage(r)
    \/ ReturnContents(r)
    \/ Dispatch(r)
    \/ ResumeRendered(r)
    \/ ResumeRenderFails(r)
    \/ ResumeRaised(r)
    \/ SayFirst(r)
    \/ SayRest(r)
    \/ Upload(r)
    \/ DeliveryFails(r)

\* the steps of the worker thread that runs call_gemini
Worker(r) == ModelReturns(r) \/ ModelRaises(r)

Next == \E r \in Requests : Handler(r) \/ Worker(r)

\* Concurrent requests, each in the shared thread with either answer, the
\* events alternating between the two.
Init ==
    \E a \in [Requests -> 1..Len(SharedAnswers)] :
        Arrived(Requests, [r \in Requests |-> Events[(r % Len(Events)) + 1]],
                [r \in Requests |-> SharedThread],
                [r \in Requests |-> SharedAnswers[a[r]]], NoSplit)

Spec == Init /\ [][Next]_vars

\* One request, over the handler's threads and answers.
InitHandler ==
    \E e \in 1..Len(Events), t \in 1..Len(HandlerThreads), a \in 1..Len(HandlerAnswers) :
        Arrived({1}, [r \in Requests |-> Events[e]],
                [r \in Requests |-> HandlerThreads[t]],
                [r \in Requests |-> HandlerAnswers[a]], NoSplit)

SpecHandler == InitHandler /\ [][Next]_vars

\* The assembly of every enumerated thread.
InitAssemble ==
    \E ch \in ThreadChoices :
        Arrived({1}, [r \in Requests |-> Events[1]],
                [r \in Requests |-> ThreadOf(ch)],
                [r \in Requests |-> Raises(<<>>)], NoSplit)

NextAssemble == Assembly(1)

SpecAssemble == InitAssemble /\ [][NextAssemble]_vars

\* The text derivation of every enumerated raw text, with and without blocks.
InitText ==
    \E raw \in RawTexts, b \in 1..Len(BlockChoices) :
        Arrived({1}, [r \in Requests |-> Events[1]],
                [r \in Requests |-> <<Msg(TsChoices[1], [text |-> raw, blocks |-> BlockChoices[b]])>>],
                [r \in Requests |-> Raises(<<>>)], NoSplit)

NextText ==
    \/ Ack(1)
    \/ FetchHistory(1)
    \/ BeginMessage(1)
    \/ EndMessage(1)
    \/ ReturnContents(1)

SpecText == InitText /\ [][NextText]_vars

\* The rendering of every enumerated response, in an empty thread.
InitRender ==
    \E ch \in ResponseChoices :
        Arrived({1}, [r \in Requests |-> Events[1]],
                [r \in Requests |-> <<>>],
                [r \in Requests |-> Returns(ResponseOf(ch))], NoSplit)

NextRender ==
    \/ Ack(1)
    \/ FetchHistory(1)
    \/ ReturnContents(1)
    \/ Dispatch(1)
    \/ ModelReturns(1)
    \/ ResumeRendered(1)
    \/ ResumeRenderFails(1)
    \/ SayFirst(1)
    \/ Upload(1)

SpecRender == InitRender /\ [][NextRender]_vars

\* _split_text on every enumerated string and limit.
InitSplit ==
    \E text \in UNION {[1..n -> {"a", "b"}] : n \in 0..MaxSplitLen}, limit \in 1..MaxSplitLimit :
        Arrived({}, [r \in Requests |-> Events[1]],
                [r \in Requests |-> <<>>], [r \in Requests |-> Raises(<<>>)],
                [text |-> text, limit |-> limit, chunks |-> <<>>, done |-> FALSE])

SpecSplit == InitSplit /\ [][SplitCall]_vars

\* ------------------------------------------------------------------------
\* Properties
\* ------------------------------------------------------------------------
Delivering(r) == pc[r] \in {"say_first", "say_rest", "upload", "done"}
ReachedDelivery(r) == Delivering(r) \/ (pc[r] = "raised" /\ exc[r] \in {"say", "files_upload_v2"})

FetchErrors == {"httpx.TransportError", "httpx.HTTPStatusError"}

\* the thread of an event as the claims word it: its thread_ts, or its own ts
\* when it has none
OriginThread(ev) == IF Has(ev, "thread_ts") THEN ev.thread_ts ELSE ev.ts

IsPrefix(s, t) == Len(s) <= Len(t) /\ s = SubSeq(t, 1, Len(s))

\* C1: a request in which an attachment fetch failed does not leave
\* handle_mention by an unhandled exception, and it ends having posted exactly
\* one message (the explanation) and uploaded nothing.
C1_FetchFailureIsReported ==
    \A r \in Requests :
        exc[r] \in FetchErrors =>
            /\ pc[r] # "raised"
            /\ Len(sent[r]) = 1
            /\ sent[r][1].call = "say"

\* the text a failed invocation or rendering is to be reported with
FailureOf(r) == IF inv[r].state = "raised" THEN inv[r].error ELSE RENDER_ERROR

\* C2: once the model invocation or the rendering of its response has failed,
\* the request is in delivery (no exception of the invocation leaves the
\* handler), its reply text is the statement of the failure, its image list is
\* empty, the calls made are posts of the chunks of that text in order, and a
\* request that is done has posted all of them and uploaded no file.
C2_ModelFailureIsReported ==
    \A r \in Requests :
        ((inv[r].state = "raised" /\ pc[r] # "awaiting") \/ reply[r].failed) =>
            /\ ReachedDelivery(r)
            /\ reply[r].images = <<>>
            /\ reply[r].text = ERROR_PREFIX \o FailureOf(r)
            /\ reply[r].chunks = _split_text(reply[r].text, DefaultLimit)
            /\ IsPrefix(sent[r], [k \in 1..Len(reply[r].chunks) |->
                                    SayCall(reply[r].chunks[k], OriginThread(event[r]))])
            /\ pc[r] = "done" => Len(sent[r]) = Len(reply[r].chunks) /\ Len(sent[r]) >= 1

\* C2 happens: a request whose model invocation raised is done, its one post
\* stating the failure.
C2_Witness ==
    \E r \in Requests :
        /\ inv[r].state = "raised" /\ pc[r] = "done"
        /\ sent[r] = <<SayCall(ERROR_PREFIX \o <<"4", "2", "9">>, OriginThread(event[r]))>>

\* the calls a delivery makes when none fails: every chunk in order, then every
\* image in order, each in the thread of the event
ExpectedCalls(r) ==
    [k \in 1..Len(reply[r].chunks) |-> SayCall(reply[r].chunks[k], OriginThread(event[r]))]
    \o [n \in 1..Len(reply[r].images) |->
          UploadCall(n, reply[r].images[n], event[r].channel, OriginThread(event[r]))]

\* C3: in a request that reached delivery the calls made so far are the first
\* calls of: the first chunk, the other chunks in order, the images in order,
\* each carrying the thread of the originating event; a request that is done has
\* made all of them.
C3_DeliveryOrder ==
    \A r \in Requests :
        ReachedDelivery(r) =>
            /\ IsPrefix(sent[r], ExpectedCalls(r))
            /\ pc[r] = "done" => sent[r] = ExpectedCalls(r)

\* C3 happens: a request inside a thread is done with three chunks posted and
\* then two images uploaded.
C3_Witness ==
    \E r \in Requests :
        /\ pc[r] = "done" /\ Has(event[r], "thread_ts")
        /\ Len(reply[r].chunks) = 3 /\ Len(reply[r].images) = 2
        /\ Len(sent[r]) = 5
        /\ sent[r][3].call = "say" /\ sent[r][4].call = "files_upload_v2"

AllEmpty(chunks) == \A k \in 1..Len(chunks) : chunks[k] = <<>>

\* the images of the reply before the chunks are looked at
RenderedImages(r) ==
    IF reply[r].failed THEN <<>> ELSE _format_model_response(inv[r].response).images

\* C4: every text posted is non-empty; when every chunk of the reply text is
\* empty the chunks are one placeholder, the image-results note if an image was
\* rendered and the no-content placeholder if none was, and the images are the
\* rendered ones.
C4_NoEmptyPost ==
    \A r \in Requests :
        ReachedDelivery(r) =>
            /\ \A k \in 1..Len(sent[r]) : sent[r][k].call = "say" => sent[r][k].text # <<>>
            /\ \A k \in 1..Len(reply[r].chunks) : reply[r].chunks[k] # <<>>
            /\ reply[r].images = RenderedImages(r)
            /\ AllEmpty(_split_text(reply[r].text, DefaultLimit)) =>
                   reply[r].chunks = <<IF reply[r].images # <<>> THEN RESULTS_NOTE
                                       ELSE NO_RESPONSE>>

\* C4 happens: a response of images alone is done, posted with the note and
\* followed by its image.
C4_Witness ==
    \E r \in Requests :
        /\ pc[r] = "done" /\ reply[r].text = <<>> /\ ~reply[r].failed
        /\ Len(sent[r]) = 2
        /\ sent[r][1].text = RESULTS_NOTE
        /\ sent[r][2].call = "files_upload_v2"

\* ---- assembly ----
\* a message yields a part: its derived text is not empty or a file of it is admitted
YieldsParts(msg) ==
    \/ DerivedText(msg) # <<>>
    \/ \E j \in 1..Len(FilesOf(msg)) : Admitted(FilesOf(msg)[j])

\* the number of parts a message yields when every fetch succeeds
PartCount(msg) ==
    (IF DerivedText(msg) # <<>> THEN 1 ELSE 0)
    + Cardinality({j \in 1..Len(FilesOf(msg)) : Admitted(FilesOf(msg)[j])})

\* message a of the fetched list goes before message b: the earlier timestamp,
\* and the earlier place in the list when the timestamps are equal
GoesBefore(msgs, a, b) ==
    \/ Float(msgs[a].ts) < Float(msgs[b].ts)
    \/ Float(msgs[a].ts) = Float(msgs[b].ts) /\ a < b

\* C5: the turns built so far come from distinct messages, each of which yields a
\* part, in ascending order of timestamp with ties in fetch order, each turn with
\* the role and the number of parts of its message; when the assembly returns,
\* every message that yields a part has its turn, and these turns are the result
\* whenever there is one.
C5_TurnsInTimestampOrder ==
    \A r \in Requests :
        pc[r] \in {"assembling", "assembled"} =>
            LET msgs == slack[r]
                origin == asm[r].origin
                turns == asm[r].contents
            IN /\ Len(turns) = Len(origin)
               /\ \A k \in 1..Len(origin) :
                    /\ origin[k] \in 1..Len(msgs)
                    /\ YieldsParts(msgs[origin[k]])
                    /\ turns[k].role = RoleOf(msgs[origin[k]])
                    /\ Len(turns[k].parts) = PartCount(msgs[origin[k]])
               /\ \A k \in 1..(Len(origin) - 1) : GoesBefore(msgs, origin[k], origin[k + 1])
               /\ pc[r] = "assembled" =>
                    /\ {origin[k] : k \in 1..Len(origin)}
                         = {m \in 1..Len(msgs) : YieldsParts(msgs[m])}
                    /\ origin # <<>> => contents[r] = turns

\* C5 happens: three messages fetched latest first, the first two with the equal
\* timestamps 1.5 and 1.50, are returned as the third, the first, the second.
C5_Witness ==
    \E r \in Requests :
        /\ pc[r] = "assembled" /\ Len(contents[r]) = 3
        /\ asm[r].origin = <<3, 1, 2>>
        /\ slack[r][1].ts # slack[r][2].ts
        /\ Float(slack[r][1].ts) = Float(slack[r][2].ts)

NoneYields(msgs) == \A m \in 1..Len(msgs) : ~YieldsParts(msgs[m])

\* what C6 says of every returned turn sequence
NonEmptyTurns(r) ==
    /\ contents[r] # <<>>
    /\ \A k \in 1..Len(contents[r]) : contents[r][k].parts # <<>>

\* C6 as claimed: the returned sequence is non-empty, every turn has a part, and
\* the result is the placeholder turn exactly when no message yields a part.
C6_PlaceholderIffNothing ==
    \A r \in Requests :
        pc[r] = "assembled" =>
            /\ NonEmptyTurns(r)
            /\ contents[r] = PlaceholderContents <=> NoneYields(slack[r])

\* C6 as amended: the returned sequence is non-empty and every turn has a part;
\* when no message yields a part the result is the placeholder turn; otherwise
\* the result is the turns of the messages, one for each message that yields a
\* part, and it equals the placeholder turn only if it is the turn of one such
\* message.
C6_PlaceholderWhenNothing ==
    \A r \in Requests :
        pc[r] = "assembled" =>
            /\ NonEmptyTurns(r)
            /\ NoneYields(slack[r]) => contents[r] = PlaceholderContents
            /\ ~NoneYields(slack[r]) =>
                 /\ contents[r] = asm[r].contents
                 /\ Len(contents[r]) = Cardinality({m \in 1..Len(slack[r]) : YieldsParts(slack[r][m])})

\* C6 happens: a thread of messages that all yield nothing, one of them with
\* files that are skipped, returns the placeholder turn.
C6_Witness ==
    \E r \in Requests :
        /\ pc[r] = "assembled" /\ Len(slack[r]) >= 2 /\ NoneYields(slack[r])
        /\ contents[r] = <<[role |-> "user", parts |-> <<[kind |-> "text", text |-> NO_CONTENT]>>]>>

\* ---- rendering ----
\* a segment tagged text, tagged image, tagged thought
IsTextSegment(part) == Has(part, "text")
IsImageSegment(part) == Has(part, "inline_data")
NotThought(part) == ~(Has(part, "thought") /\ part.thought = TRUE)
IsPlainText(part) == NotThought(part) /\ IsTextSegment(part)
IsFilledText(part) == IsPlainText(part) /\ part.text # <<>>
IsPlainImage(part) == NotThought(part) /\ IsImageSegment(part)

TextsOf(parts) == [k \in 1..Len(parts) |-> parts[k].text]
ImagesOf(parts) ==
    [k \in 1..Len(parts) |->
        [data |-> parts[k].inline_data.data,
         format |-> IF parts[k].inline_data.mime_type = <<"image", "png">> THEN "PNG"
                    ELSE IF parts[k].inline_data.mime_type = <<"image", "jpeg">> THEN "JPEG"
                    ELSE "PNG"]]

\* a response was rendered and the reply is the rendering
Rendered(r) == Delivering(r) /\ inv[r].state = "returned" /\ ~reply[r].failed

\* C7 as claimed: when a segment that is no thought is tagged text, the combined
\* text is the strings of those segments joined by a blank line, and the images
\* are the image segments that are no thoughts, in order.
C7_JoinsEveryTextSegment ==
    \A r \in Requests :
        Rendered(r) =>
            LET parts == inv[r].response.parts
            IN /\ SelectSeq(parts, IsPlainText) # <<>> =>
                    reply[r].text = Join(<<NL, NL>>, TextsOf(SelectSeq(parts, IsPlainText)))
               /\ reply[r].images = ImagesOf(SelectSeq(parts, IsPlainImage))

\* C7 as amended: the combined text is the non-empty strings of the text segments
\* that are no thoughts joined by a blank line (the empty text when there is
\* none), and the images are the image segments that are no thoughts, in order;
\* no thought contributes to either.
C7_JoinsFilledTextSegments ==
    \A r \in Requests :
        Rendered(r) =>
            LET parts == inv[r].response.parts
            IN /\ reply[r].text = Join(<<NL, NL>>, TextsOf(SelectSeq(parts, IsFilledText)))
               /\ reply[r].images = ImagesOf(SelectSeq(parts, IsPlainImage))

\* C7 happens: [thought, text("a"), image(X), text("b")] is rendered as "a\n\nb"
\* and [X].
C7_Witness ==
    \E r \in Requests :
        /\ Rendered(r)
        /\ inv[r].response.parts = <<THOUGHT_TEXT, TEXT_A, IMAGE_X, TEXT_B>>
        /\ reply[r].text = <<"a", NL, NL, "b">>
        /\ reply[r].images = <<[data |-> "X", format |-> "PNG"]>>

\* ---- chunking ----
\* ceil(l / n) for n >= 1
Ceil(l, n) == CHOOSE q \in 0..l : q * n >= l /\ (q - 1) * n < l

RECURSIVE Concat(_)
Concat(strs) == IF strs = <<>> THEN <<>> ELSE Head(strs) \o Concat(Tail(strs))

\* the chunks are at most limit long, all but the last exactly, and make up the text
ChunksCover(text, limit, chunks) ==
    /\ \A k \in 1..Len(chunks) : Len(chunks[k]) <= limit
    /\ \A k \in 1..(Len(chunks) - 1) : Len(chunks[k]) = limit
    /\ Concat(chunks) = text

\* C8 as claimed: a string of length L >= 0 split at the limit N >= 1 gives
\* ceil(L / N) chunks of at most N characters, all but the last of N, that
\* concatenate to the string.
C8_CeilChunks ==
    split.done /\ split.limit >= 1 =>
        /\ Len(split.chunks) = Ceil(Len(split.text), split.limit)
        /\ ChunksCover(split.text, split.limit, split.chunks)

\* C8 as amended: the same for L >= 1; the empty string gives one empty chunk.
C8_CeilChunksOfNonEmpty ==
    split.done /\ split.limit >= 1 =>
        /\ split.text # <<>> => Len(split.chunks) = Ceil(Len(split.text), split.limit)
        /\ split.text = <<>> => split.chunks = << <<>> >>
        /\ ChunksCover(split.text, split.limit, split.chunks)

\* C8 happens: a string of five characters is split at two into three chunks.
C8_Witness ==
    /\ split.done /\ Len(split.text) = 5 /\ split.limit = 2
    /\ Len(split.chunks) = 3 /\ Len(split.chunks[3]) = 1

\* ---- text derivation ----
\* the text of the message has been derived
Derived(r) == pc[r] \in {"assembling", "assembled"} /\ (asm[r].j >= 1 \/ asm[r].i > 1)

\* a mention token starts at some place of s
HasMention(s) == \E i \in 1..Len(s) : MentionEnd(s, i) # 0

NoEdgeSpace(s) == s = <<>> \/ (~IsSpace(s[1]) /\ ~IsSpace(s[Len(s)]))

\* s without its characters from i up to e - 1
Without(s, i, e) == SubSeq(s, 1, i - 1) \o SubSeq(s, e, Len(s))

Unfinished(r) == pc[r] \notin {"absent", "done", "raised"}
WaitingOnModel(r) == pc[r] = "awaiting" /\ inv[r].state = "running"

====
